---- MODULE Spec2Model ----
(***************************************************************************)
(* Model of the cv-tool image viewer: the navigation state kept on         *)
(* MyAppButton (supported_files, current_index), the ImageManager staging  *)
(* slot (temp_file_path) and save_image, as coded in src/main.py and       *)
(* src/utils/cv.py.  Python lists are 0-based; sequences here are 1-based, *)
(* so supported_files[i] of the code is supported_files[i + 1] here.       *)
(***************************************************************************)
EXTENDS Integers, Sequences, FiniteSets, TLC

VARIABLES
    supported_files,  \* MyAppButton.supported_files: the list of paths
    current_index,    \* MyAppButton.current_index (0-based)
    temp_file_path,   \* ImageManager.temp_file_path: None, or the temp file (held by its content)
    staged_from,      \* history: the path the frame in the temp file was read from
    center_box,       \* the widget shown in the centre box
    disk,             \* the files written by save_image: a set of [path, data]
    last,             \* history: the handler that ran last, its outcome and its display call
    running           \* FALSE once a handler raised an uncaught exception

vars == <<supported_files, current_index, temp_file_path, staged_from,
          center_box, disk, last, running>>

(***************************************************************************)
(* Bounds of the model.                                                    *)
(***************************************************************************)
\* The most files save_image may have written in one run.
MaxSaved == 2
\* datetime.now() is read in ticks 0..MaxNow.
MaxNow == 2
\* Ticks of the wall clock per second; "%Y%m%d_%H%M%S" keeps whole seconds.
TicksPerSecond == 2

(***************************************************************************)
(* Program constants.                                                      *)
(***************************************************************************)
INITIAL_INDEX == 0

None == [kind |-> "None"]

\* IMAGE_EXT = "*.jpg *.png": the filters with '*' removed
extensions == {".jpg", ".png"}

\* str.lower() on the extensions that occur
lower(ext) ==
    CASE ext = ".PNG" -> ".png"
      [] ext = ".JPG" -> ".jpg"
      [] OTHER -> ext

(***************************************************************************)
(* The file system the choosers look at.  os.walk(base) yields one         *)
(* <<root_directory, filenames>> per directory, top down.                  *)
(***************************************************************************)
Filename(name, ext) == [name |-> name, ext |-> ext]

os_walk(base) ==
    CASE base = "pics" ->
           << <<"pics", <<Filename("a", ".jpg"), Filename("notes", ".txt"),
                          Filename("B", ".PNG")>> >>,
              <<"pics/sub", <<Filename("c", ".jpg")>> >> >>
      [] base = "docs" ->
           << <<"docs", <<Filename("readme", ".txt")>> >> >>

\* os.path.join(root_directory, filename)
join(root_directory, filename) ==
    [dir |-> root_directory, name |-> filename.name, ext |-> filename.ext]

\* os.path.splitext(path): <<root, ext>>
splitext(path) == << [dir |-> path.dir, name |-> path.name], path.ext >>

Directories == {"pics", "docs"}

\* The files the file chooser is used on: the images of the tree.
ImageFiles ==
    { join("pics", Filename("a", ".jpg")),
      join("pics", Filename("B", ".PNG")),
      join("pics/sub", Filename("c", ".jpg")) }

(***************************************************************************)
(* Images.  A frame is a matrix (rows of pixels); a pixel is a grey level  *)
(* [g |-> 0..255], on which BGR -> HSV gives (0, 0, g) and back.           *)
(***************************************************************************)
Px(n) == [g |-> n]

\* cv2.imread(input_file) for the files of the tree
imread(path) ==
    CASE path.name = "a" -> << <<Px(10), Px(20), Px(30)>>,
                               <<Px(40), Px(50), Px(60)>> >>
      [] path.name = "B" -> << <<Px(70)>> >>
      [] path.name = "c" -> << <<Px(90)>> >>

\* frame.shape[0], frame.shape[1]
Height(frame) == Len(frame)
Width(frame) == Len(frame[1])

\* frame[s_y:e_y, s_x:e_x].copy()
Slice(frame, s_y, e_y, s_x, e_x) ==
    [i \in 1..(e_y - s_y) |-> [j \in 1..(e_x - s_x) |-> frame[s_y + i][s_x + j]]]

\* np.rot90(frame): one quarter turn counter-clockwise
rot90once(frame) ==
    [i \in 1..Width(frame) |->
        [j \in 1..Height(frame) |-> frame[j][Width(frame) + 1 - i]]]

RECURSIVE rot90(_, _)
\* np.rot90(frame, k) for k in 1..3
rot90(frame, k) == IF k = 0 THEN frame ELSE rot90(rot90once(frame), k - 1)

\* np.flipud(frame)
flipud(frame) == [i \in 1..Height(frame) |-> frame[Height(frame) + 1 - i]]

\* np.fliplr(frame)
fliplr(frame) ==
    [i \in 1..Height(frame) |->
        [j \in 1..Width(frame) |-> frame[i][Width(frame) + 1 - j]]]

\* cv2.resize(frame, (width, height)): the size is exact; the interpolated
\* content is kept as a term over the source frame.
resize(frame, width, height) ==
    [i \in 1..height |->
        [j \in 1..width |-> [interp |-> <<i, j>>, size |-> <<width, height>>, of |-> frame]]]

Min(a, b) == IF a < b THEN a ELSE b

\* cv2.cvtColor(frame, COLOR_BGR2HSV) / COLOR_HSV2BGR on grey pixels
BGR2HSV(p) == [h |-> 0, s |-> 0, v |-> p.g]
HSV2BGR(q) == [g |-> q.v]

\* np.clip(channel * factor, 0, 255) stored back into the uint8 channel;
\* factor is given in halves (0.5 is 1, 1.0 is 2, 2.5 is 5).
scale(value, halves) == Min(255, (value * halves) \div 2)

\* set_brightness: channel 2 (value) scaled
brighten(frame, halves) ==
    [i \in 1..Height(frame) |-> [j \in 1..Width(frame) |->
        HSV2BGR([BGR2HSV(frame[i][j]) EXCEPT !.v = scale(@, halves)])]]

\* set_saturation: channel 1 (saturation) scaled
saturate(frame, halves) ==
    [i \in 1..Height(frame) |-> [j \in 1..Width(frame) |->
        HSV2BGR([BGR2HSV(frame[i][j]) EXCEPT !.s = scale(@, halves)])]]

(***************************************************************************)
(* Python list indexing and the text of the input fields.                  *)
(***************************************************************************)
\* list[i] raises IndexError unless -len <= i < len
in_range(list, i) == -Len(list) <= i /\ i < Len(list)
item(list, i) == IF i >= 0 THEN list[i + 1] ELSE list[Len(list) + i + 1]

\* list[1:]
slice_from_1(list) == IF list = <<>> THEN <<>> ELSE Tail(list)

\* The text of an input field: a string of digits, a decimal such as "1.5"
\* (kept in halves), or anything else ("", "-1", "abc").
Digits(n) == [kind |-> "digits", val |-> n]
Decimal(halves) == [kind |-> "decimal", halves |-> halves]
OtherText == [kind |-> "other"]

\* str.isdigit(), int(text)
isdigit(text) == text.kind = "digits"
int(text) == text.val
\* float(text) succeeds on digits and decimals; the value in halves
is_float(text) == text.kind \in {"digits", "decimal"}
float(text) == IF text.kind = "digits" THEN 2 * text.val ELSE text.halves

\* datetime.now().strftime("%Y%m%d_%H%M%S"): the whole seconds of the clock
strftime(now) == now \div TicksPerSecond

(***************************************************************************)
(* The widgets of the centre box and the record of the last handler.       *)
(***************************************************************************)
Image(source) == [kind |-> "Image", source |-> source]
NoMoreImages == [kind |-> "Label", text |-> "No more images available"]
Empty == [kind |-> "empty"]
NoCall == [kind |-> "nocall"]

\* before: the destination of the handler before, when that was a save that
\*         wrote a file and this one is too (else None);
\* over:   a transform replaced a temp file made from the same input file;
\* redo:   a transform repeated the request of the handler before, which had
\*         staged it from the same input file.
Did(op, result, load, req, dest) ==
    [op |-> op, result |-> result, load |-> load, req |-> req, dest |-> dest,
     before |-> None, over |-> FALSE, redo |-> FALSE]

Init ==
    /\ supported_files = <<>>
    /\ current_index = INITIAL_INDEX
    /\ temp_file_path = None
    /\ staged_from = None
    /\ center_box = Empty
    /\ disk = {}
    /\ last = Did("init", "ok", NoCall, None, None)
    /\ running = TRUE

(***************************************************************************)
(* Navigation: MyAppButton.on_file_chosen, on_directory_chosen,            *)
(* next_action, prev_action.                                               *)
(***************************************************************************)
RECURSIVE collect_filenames(_, _, _)
\* the inner loop of on_directory_chosen over the filenames of one directory
collect_filenames(files, root_directory, filenames) ==
    IF filenames = <<>> THEN files
    ELSE LET file_path == join(root_directory, Head(filenames))
         IN collect_filenames(
                IF lower(splitext(file_path)[2]) \in extensions
                THEN Append(files, file_path) ELSE files,
                root_directory, Tail(filenames))

RECURSIVE collect_walk(_, _)
\* the outer loop of on_directory_chosen over os.walk(base_path)
collect_walk(files, walk) ==
    IF walk = <<>> THEN files
    ELSE collect_walk(collect_filenames(files, Head(walk)[1], Head(walk)[2]), Tail(walk))

\* The roots os.walk(base) visits
Roots(base) == { os_walk(base)[n][1] : n \in 1..Len(os_walk(base)) }

\* os_walk lists the tree as it is before any save: a directory is opened
\* only while save_image has written no image file below it.
Unsaved(base) ==
    \A f \in disk : ~(f.path.root.dir \in Roots(base) /\ lower(f.path.ext) \in extensions)

on_file_chosen(base_path) ==
    /\ running
    /\ supported_files' = <<base_path>>
    /\ current_index' = INITIAL_INDEX
    /\ center_box' = Image(item(supported_files', 0))
    /\ last' = Did("open_file", "ok", center_box', None, None)
    /\ UNCHANGED <<temp_file_path, staged_from, disk, running>>

on_directory_chosen(base_path) ==
    /\ running
    /\ Unsaved(base_path)
    /\ supported_files' = collect_walk(<<>>, os_walk(base_path))
    /\ current_index' = INITIAL_INDEX
    /\ IF supported_files' # <<>>
       THEN /\ center_box' = Image(item(supported_files', 0))
            /\ last' = Did("open_dir", "ok", center_box', None, None)
       ELSE /\ center_box' = center_box
            /\ last' = Did("open_dir", "ok", NoCall, None, None)
    /\ UNCHANGED <<temp_file_path, staged_from, disk, running>>

\* next_action moving the index also when there is no next image
next_action_moving ==
    /\ running
    /\ LET supported_list == slice_from_1(supported_files)
       IN IF current_index < Len(supported_list)
          THEN /\ center_box' = Image(item(supported_list, current_index))
               /\ current_index' = current_index + 1
               /\ last' = Did("next", "ok", center_box', None, None)
          ELSE /\ center_box' = NoMoreImages
               /\ current_index' = current_index + 1
               /\ last' = Did("next", "none", NoMoreImages, None, None)
    /\ UNCHANGED <<supported_files, temp_file_path, staged_from, disk, running>>

\* next_action walking supported_files itself instead of supported_files[1:]
next_action_unshifted ==
    /\ running
    /\ LET supported_list == supported_files
       IN IF current_index < Len(supported_list)
          THEN /\ center_box' = Image(item(supported_list, current_index))
               /\ current_index' = current_index + 1
               /\ last' = Did("next", "ok", center_box', None, None)
          ELSE /\ center_box' = NoMoreImages
               /\ current_index' = current_index
               /\ last' = Did("next", "none", NoMoreImages, None, None)
    /\ UNCHANGED <<supported_files, temp_file_path, staged_from, disk, running>>

next_action ==
    /\ running
    /\ LET supported_list == slice_from_1(supported_files)
       IN IF current_index < Len(supported_list)
          THEN /\ center_box' = Image(item(supported_list, current_index))
               /\ current_index' = current_index + 1
               /\ last' = Did("next", "ok", center_box', None, None)
          ELSE /\ center_box' = NoMoreImages
               /\ current_index' = current_index
               /\ last' = Did("next", "none", NoMoreImages, None, None)
    /\ UNCHANGED <<supported_files, temp_file_path, staged_from, disk, running>>

\* prev_action loading the file at the index before it is decremented
prev_action_stale ==
    /\ running
    /\ IF current_index > 0
       THEN /\ center_box' = Image(item(supported_files, current_index))
            /\ current_index' = current_index - 1
            /\ last' = Did("prev", "ok", center_box', None, None)
       ELSE /\ center_box' = NoMoreImages
            /\ current_index' = current_index
            /\ last' = Did("prev", "none", NoMoreImages, None, None)
    /\ UNCHANGED <<supported_files, temp_file_path, staged_from, disk, running>>

prev_action ==
    /\ running
    /\ IF current_index > 0
       THEN /\ current_index' = current_index - 1
            /\ center_box' = Image(item(supported_files, current_index'))
            /\ last' = Did("prev", "ok", center_box', None, None)
       ELSE /\ center_box' = NoMoreImages
            /\ current_index' = current_index
            /\ last' = Did("prev", "none", NoMoreImages, None, None)
    /\ UNCHANGED <<supported_files, temp_file_path, staged_from, disk, running>>

(***************************************************************************)
(* The transforms of ImageManager.  Each reads the current file, and on    *)
(* success writes a new temp file (_save_temp_image) and shows it.         *)
(***************************************************************************)
Req(kind, settings) == [kind |-> kind, settings |-> settings]

\* input_file = supported_files[current_index]; frame = cv2.imread(input_file)
input_file == item(supported_files, current_index)

\* a transform that reads the temp file of the transform before, when there is one
frame_read_chained ==
    IF temp_file_path # None THEN temp_file_path.image ELSE imread(input_file)

frame_read == imread(input_file)

\* The handler returns without a call of the display callback.
Skip(op, result, req) ==
    /\ last' = Did(op, result, NoCall, req, None)
    /\ UNCHANGED <<supported_files, current_index, temp_file_path, staged_from,
                   center_box, disk, running>>

\* The handler raises; nothing catches it.
Raise(op, exception, req) ==
    /\ running' = FALSE
    /\ last' = Did(op, exception, NoCall, req, None)
    /\ UNCHANGED <<supported_files, current_index, temp_file_path, staged_from,
                   center_box, disk>>

\* self._save_temp_image(image); load_image_callback(self.temp_file_path)
save_temp_and_load(op, req, image) ==
    /\ temp_file_path' = [kind |-> "temp", image |-> image]
    /\ staged_from' = input_file
    /\ center_box' = Image(temp_file_path')
    /\ last' = [Did(op, "staged", center_box', req, None)
                    EXCEPT !.over = (temp_file_path # None /\ staged_from = input_file),
                           !.redo = (/\ last.result = "staged"
                                     /\ last.op = op
                                     /\ last.req = req
                                     /\ staged_from = input_file)]
    /\ UNCHANGED <<supported_files, current_index, disk, running>>

\* set_cropped with <= for < in the test of the bounds
set_cropped_loose(settings) ==
    LET req == Req("crop", settings)
        s_x == settings[1]
        s_y == settings[2]
        e_x == settings[3]
        e_y == settings[4]
    IN IF ~in_range(supported_files, current_index)
       THEN Raise("crop", "IndexError", req)
       ELSE IF ~(0 <= s_x /\ s_x <= e_x /\ e_x <= Width(frame_read)
                 /\ 0 <= s_y /\ s_y <= e_y /\ e_y <= Height(frame_read))
       THEN Skip("crop", "invalid", req)
       ELSE save_temp_and_load("crop", req, Slice(frame_read, s_y, e_y, s_x, e_x))

set_cropped(settings) ==
    LET req == Req("crop", settings)
        s_x == settings[1]
        s_y == settings[2]
        e_x == settings[3]
        e_y == settings[4]
    IN IF ~in_range(supported_files, current_index)
       THEN Raise("crop", "IndexError", req)
       ELSE IF ~(0 <= s_x /\ s_x < e_x /\ e_x <= Width(frame_read)
                 /\ 0 <= s_y /\ s_y < e_y /\ e_y <= Height(frame_read))
       THEN Skip("crop", "invalid", req)
       ELSE save_temp_and_load("crop", req, Slice(frame_read, s_y, e_y, s_x, e_x))

set_resize(settings) ==
    LET req == Req("resize", settings)
        width == settings[1]
        height == settings[2]
    IN IF ~in_range(supported_files, current_index)
       THEN Raise("resize", "IndexError", req)
       ELSE IF width <= 0 \/ height <= 0
       THEN Skip("resize", "invalid", req)
       ELSE save_temp_and_load("resize", req, resize(frame_read, width, height))

set_brightness(settings) ==
    LET req == Req("brightness", settings)
    IN IF ~in_range(supported_files, current_index)
       THEN Raise("brightness", "IndexError", req)
       ELSE save_temp_and_load("brightness", req, brighten(frame_read, settings[1]))

set_saturation(settings) ==
    LET req == Req("saturation", settings)
    IN IF ~in_range(supported_files, current_index)
       THEN Raise("saturation", "IndexError", req)
       ELSE save_temp_and_load("saturation", req, saturate(frame_read, settings[1]))

\* set_rotate_90 returning when the count is out of range
set_rotate_90_strict(settings) ==
    LET req == Req("rotate", settings)
        angle == settings
    IN IF ~in_range(supported_files, current_index)
       THEN Raise("rotate", "IndexError", req)
       ELSE IF 0 < angle /\ angle < 4
       THEN save_temp_and_load("rotate", req, rot90(frame_read, angle))
       ELSE Skip("rotate", "invalid", req)

set_rotate_90(settings) ==
    LET req == Req("rotate", settings)
        angle == settings
    IN IF ~in_range(supported_files, current_index)
       THEN Raise("rotate", "IndexError", req)
       ELSE save_temp_and_load("rotate", req,
                IF 0 < angle /\ angle < 4 THEN rot90(frame_read, angle) ELSE frame_read)

\* set_flip flipping the temp file of the transform before, when there is one
set_flip_chained(settings) ==
    LET req == Req("flip", settings)
        frame == IF temp_file_path # None THEN temp_file_path.image ELSE frame_read
    IN IF ~in_range(supported_files, current_index)
       THEN Raise("flip", "IndexError", req)
       ELSE IF settings = "vertically"
       THEN save_temp_and_load("flip", req, flipud(frame))
       ELSE IF settings = "horizontally"
       THEN save_temp_and_load("flip", req, fliplr(frame))
       ELSE Skip("flip", "invalid", req)

set_flip(settings) ==
    LET req == Req("flip", settings)
    IN IF ~in_range(supported_files, current_index)
       THEN Raise("flip", "IndexError", req)
       ELSE IF settings = "vertically"
       THEN save_temp_and_load("flip", req, flipud(frame_read))
       ELSE IF settings = "horizontally"
       THEN save_temp_and_load("flip", req, fliplr(frame_read))
       ELSE Skip("flip", "invalid", req)

(***************************************************************************)
(* The callbacks of the input forms (main.py), which parse the text and    *)
(* call the ImageManager.                                                  *)
(***************************************************************************)
all_digits(text) == \A n \in 1..Len(text) : isdigit(text[n])
ints(text) == [n \in 1..Len(text) |-> int(text[n])]

crop_button_callback(text) ==
    /\ running
    /\ IF ~all_digits(text)
       THEN Skip("crop", "not_numeric", Req("crop", text))
       ELSE set_cropped(ints(text))

resize_button_callback(text) ==
    /\ running
    /\ IF ~all_digits(text)
       THEN Skip("resize", "not_numeric", Req("resize", text))
       ELSE set_resize(ints(text))

\* one field: value = float(item.text); 0 <= value <= 2.5 or return
brightness_button_callback(text) ==
    /\ running
    /\ IF ~is_float(text[1])
       THEN Raise("brightness", "ValueError", Req("brightness", text))
       ELSE IF float(text[1]) < 0 \/ float(text[1]) > 5
       THEN Skip("brightness", "out_of_range", Req("brightness", text))
       ELSE set_brightness(<<float(text[1])>>)

saturation_button_callback(text) ==
    /\ running
    /\ IF ~is_float(text[1])
       THEN Raise("saturation", "ValueError", Req("saturation", text))
       ELSE IF float(text[1]) < 0 \/ float(text[1]) > 5
       THEN Skip("saturation", "out_of_range", Req("saturation", text))
       ELSE set_saturation(<<float(text[1])>>)

rotate_90_button_callback(text) ==
    /\ running
    /\ set_rotate_90(text)

flip_button_callback(text) ==
    /\ running
    /\ IF text \notin {"vertically", "horizontally"}
       THEN Skip("flip", "invalid", Req("flip", text))
       ELSE set_flip(text)

(***************************************************************************)
(* Save: MyAppButton.save_action -> ImageManager.save_image.               *)
(***************************************************************************)
\* splitext(path)[0] + '_' + stamp + splitext(path)[1]
destination(current_image_path, now) ==
    [root |-> splitext(current_image_path)[1],
     stamp |-> strftime(now),
     ext |-> splitext(current_image_path)[2]]

\* shutil.copyfile(self.temp_file_path, destination_path)
copyfile(source, destination_path) ==
    {f \in disk : f.path # destination_path}
        \cup {[path |-> destination_path, data |-> source.image]}

\* the three checks save_image makes before it copies
save_check(files, index, temp) ==
    IF files = <<>> THEN "no_images"
    ELSE IF index >= Len(files) THEN "invalid_index"
    ELSE IF temp = None THEN "no_processed"
    ELSE "ok"

\* a save that only clears the temp file path when it is refused
save_refused_clearing(status) ==
    /\ temp_file_path' = None
    /\ staged_from' = None
    /\ last' = Did("save", status, NoCall, None, None)
    /\ UNCHANGED <<supported_files, current_index, center_box, disk, running>>

\* print(...); return
save_refused(status) == Skip("save", status, None)

\* save_image moving the temp file to the destination: the slot is emptied
save_image_consuming(now) ==
    LET status == save_check(supported_files, current_index, temp_file_path)
    IN IF status # "ok"
       THEN save_refused(status)
       ELSE LET current_image_path == item(supported_files, current_index)
                destination_path == destination(current_image_path, now)
         IN /\ disk' = copyfile(temp_file_path, destination_path)
            /\ Cardinality(disk') <= MaxSaved
            /\ temp_file_path' = None
            /\ staged_from' = None
            /\ last' = [Did("save", "saved", NoCall, None, destination_path)
                            EXCEPT !.before = IF last.op = "save" /\ last.result = "saved"
                                              THEN last.dest ELSE None]
            /\ UNCHANGED <<supported_files, current_index, center_box, running>>

save_image(now) ==
    LET status == save_check(supported_files, current_index, temp_file_path)
    IN IF status # "ok"
       THEN save_refused(status)
       ELSE LET current_image_path == item(supported_files, current_index)
                destination_path == destination(current_image_path, now)
         IN /\ disk' = copyfile(temp_file_path, destination_path)
            /\ Cardinality(disk') <= MaxSaved
            /\ last' = [Did("save", "saved", NoCall, None, destination_path)
                            EXCEPT !.before = IF last.op = "save" /\ last.result = "saved"
                                              THEN last.dest ELSE None]
            /\ UNCHANGED <<supported_files, current_index, temp_file_path,
                           staged_from, center_box, running>>

save_action ==
    /\ running
    /\ \E now \in 0..MaxNow : save_image(now)

(***************************************************************************)
(* The inputs tried.  Spec runs every handler, save included, on a few     *)
(* requests; EditSpec runs navigation and the transforms on more requests  *)
(* and leaves save out (save_image changes neither the list, the index nor *)
(* the temp file).                                                         *)
(***************************************************************************)
Texts(values) == [n \in 1..Len(values) |-> Digits(values[n])]

CropTexts == { Texts(<<1, 0, 1, 2>>) }
ResizeTexts == { Texts(<<0, 2>>) }
FactorTexts == { <<Digits(3)>> }
RotateTexts == {4}
FlipTexts == {"vertically"}

MoreCropTexts ==
    CropTexts \cup { Texts(<<0, 0, 1, 1>>), Texts(<<0, 0, 3, 2>>), Texts(<<0, 0, 2, 3>>),
                     Texts(<<1, 0, 3, 1>>), Texts(<<0, 1, 1, 1>>),
                     <<Digits(0), OtherText, Digits(1), Digits(1)>> }
MoreResizeTexts == ResizeTexts \cup { Texts(<<1, 2>>), Texts(<<2, 0>>), <<OtherText, Digits(1)>> }
MoreFactorTexts == FactorTexts \cup { <<Decimal(1)>>, <<Digits(2)>>, <<OtherText>> }
MoreRotateTexts == 0..4
MoreFlipTexts == FlipTexts \cup {"horizontally", "diagonally"}

Navigate ==
    \/ \E base_path \in ImageFiles : on_file_chosen(base_path)
    \/ \E base_path \in Directories : on_directory_chosen(base_path)
    \/ next_action
    \/ prev_action

Transform(crops, sizes, factors, turns, flips) ==
    \/ \E text \in crops : crop_button_callback(text)
    \/ \E text \in sizes : resize_button_callback(text)
    \/ \E text \in factors : brightness_button_callback(text)
    \/ \E text \in factors : saturation_button_callback(text)
    \/ \E text \in turns : rotate_90_button_callback(text)
    \/ \E text \in flips : flip_button_callback(text)

Next ==
    \/ Navigate
    \/ save_action
    \/ Transform(CropTexts, ResizeTexts, FactorTexts, RotateTexts, FlipTexts)

Spec == Init /\ [][Next]_vars

NextEdit ==
    \/ Navigate
    \/ Transform(MoreCropTexts, MoreResizeTexts, MoreFactorTexts, MoreRotateTexts,
                 MoreFlipTexts)

EditSpec == Init /\ [][NextEdit]_vars

(***************************************************************************)
(* Navigation properties.                                                  *)
(***************************************************************************)
\* C1: with INITIAL_INDEX = 0, after any sequence of opens, Next, Prev,
\* transforms and saves, 0 <= current_index <= len(supported_files).
IndexWithinList ==
    0 <= current_index /\ current_index <= Len(supported_files)

\* C1 witness: after a save wrote a file, Next was pressed past the end of a
\* three-file list, and the index is still on the last file.
IndexWithinListWitness ==
    /\ last.op = "next" /\ last.result = "none"
    /\ Len(supported_files) = 3 /\ current_index = 2
    /\ disk # {}

\* C2: next_action works on supported_files[1:]: with current_index <
\* len(supported_files[1:]) it shows supported_files[current_index + 1] and
\* adds exactly 1 to current_index; otherwise it shows the "no more images"
\* label, raises nothing and leaves current_index alone.  It never shows
\* supported_files[0].
AdvanceShifted ==
    [][last'.op = "next" =>
         /\ supported_files' = supported_files
         /\ running'
         /\ IF current_index < Len(supported_files) - 1
            THEN /\ last'.load = Image(supported_files[current_index + 2])
                 /\ center_box' = last'.load
                 /\ current_index' = current_index + 1
            ELSE /\ last'.load = NoMoreImages
                 /\ center_box' = NoMoreImages
                 /\ current_index' = current_index
         /\ (supported_files # <<>> => last'.load # Image(supported_files[1]))]_vars

\* C2 witness: Next pressed on the last file of a list of three.
AdvanceShiftedWitness ==
    /\ last.op = "next" /\ last.result = "none"
    /\ Len(supported_files) = 3 /\ current_index = 2
    /\ center_box = NoMoreImages

\* C3 as stated: once next_action has run past the last file of a non-empty
\* list, current_index = len(supported_files).
ExhaustedAtLen ==
    (last.op = "next" /\ last.result = "none" /\ supported_files # <<>>)
        => current_index = Len(supported_files)

\* C3 as amended: once next_action has run past the last file of a non-empty
\* list, current_index = len(supported_files) - 1, the index of the last
\* file; current_index = len(supported_files) is never reached on a
\* non-empty list.
ExhaustedAtLastIndex ==
    /\ (last.op = "next" /\ last.result = "none" /\ supported_files # <<>>)
          => current_index = Len(supported_files) - 1
    /\ supported_files # <<>> => current_index < Len(supported_files)

\* C3 witness: Next refused on a list of three; the index is 2.
ExhaustedWitness ==
    /\ last.op = "next" /\ last.result = "none"
    /\ Len(supported_files) = 3 /\ current_index = 2
    /\ temp_file_path # None

\* C4 as stated: once the index has moved past the first file, no Next or
\* Prev shows supported_files[0] again.
FirstFileUnreachable ==
    [][(current_index >= 1 /\ last'.op \in {"next", "prev"})
          => last'.load # Image(supported_files[1])]_vars

\* C4 as amended: no Next shows supported_files[0]; Prev shows
\* supported_files[0] exactly when it moves the index from 1 to 0.
FirstFileOnlyByRetreat ==
    [][supported_files # <<>> =>
         /\ last'.op = "next" => last'.load # Image(supported_files[1])
         /\ last'.op = "prev" =>
               /\ (last'.load = Image(supported_files[1])) <=> (current_index = 1)
               /\ current_index = 1 => (current_index' = 0 /\ center_box' = last'.load)]_vars

\* C4 witness: in a list of three, Prev brought the index back to 0 and the
\* first file is shown.
FirstFileWitness ==
    /\ last.op = "prev" /\ last.result = "ok"
    /\ Len(supported_files) = 3 /\ current_index = 0
    /\ center_box = Image(supported_files[1])

(***************************************************************************)
(* Save properties.                                                        *)
(***************************************************************************)
\* The checks of save_image on the list and the temp file of the state, for
\* every index a caller may pass, and what a refused save reports.
RefusedSaveStatus ==
    /\ \A index \in 0..(Len(supported_files) + 1) :
          LET status == save_check(supported_files, index, temp_file_path)
          IN /\ supported_files = <<>> => status = "no_images"
             /\ (supported_files # <<>> /\ index >= Len(supported_files))
                   => status = "invalid_index"
             /\ (supported_files # <<>> /\ index < Len(supported_files)
                                        /\ temp_file_path = None)
                   => status = "no_processed"
    /\ (last.op = "save" /\ last.result # "saved")
          => /\ last.result \in {"no_images", "invalid_index", "no_processed"}
             /\ last.dest = None
             /\ last.load = NoCall

\* A refused save changes nothing but the record of the last handler.
RefusedSaveFrame ==
    [][(last'.op = "save"
          /\ (supported_files = <<>> \/ current_index >= Len(supported_files)
                \/ temp_file_path = None))
          => /\ last'.result = save_check(supported_files, current_index, temp_file_path)
             /\ last'.result # "saved"
             /\ disk' = disk
             /\ temp_file_path' = temp_file_path
             /\ staged_from' = staged_from
             /\ supported_files' = supported_files
             /\ current_index' = current_index
             /\ center_box' = center_box
             /\ running']_vars

\* C5: save_image is refused, and writes no file, when the list is empty,
\* when current_index is no index of the list, and when no transform has
\* staged a temp file; a refused save changes neither the temp file nor the
\* list nor the index.
RefusedSaveIsNoOp == []RefusedSaveStatus /\ RefusedSaveFrame

\* C5 witness: a save refused for an empty list while a temp file made from
\* an earlier list is still staged and a file was saved before.
RefusedSaveWitness ==
    /\ last.op = "save" /\ last.result = "no_images"
    /\ temp_file_path # None
    /\ disk # {}

\* C6: every save that writes a file writes it beside the file the staged
\* frame was read from, with that file's stem and extension and a timestamp.
SavedBesideStagedSource ==
    (last.op = "save" /\ last.result = "saved")
        => /\ last.dest.root = splitext(staged_from)[1]
           /\ last.dest.ext = splitext(staged_from)[2]
           /\ last.dest.stamp \in 0..MaxNow

\* C7: a second save right after a save of the same temp file writes a
\* second file: the two destinations differ and both files hold the staged
\* frame.
SecondSaveSecondFile ==
    (last.op = "save" /\ last.result = "saved" /\ last.before # None)
        => /\ last.before # last.dest
           /\ [path |-> last.before, data |-> temp_file_path.image] \in disk
           /\ [path |-> last.dest, data |-> temp_file_path.image] \in disk

(***************************************************************************)
(* Transform properties, checked under EditSpec.                           *)
(***************************************************************************)
Rejections == {"invalid", "not_numeric", "out_of_range"}

\* C8: a transform request rejected for its parameters (a crop with an empty
\* or outlying rectangle, a resize with a width or height of 0 or less, a
\* flip that is neither vertical nor horizontal) is a no-op: no temp file is
\* written, the temp file staged before stays, the display callback is not
\* called, and the list and the index are unchanged.
RejectedTransformIsNoOp ==
    [][/\ (last'.result \in Rejections /\ last'.op # "save")
            => /\ temp_file_path' = temp_file_path
               /\ staged_from' = staged_from
               /\ last'.load = NoCall
               /\ center_box' = center_box
               /\ supported_files' = supported_files
               /\ current_index' = current_index
               /\ disk' = disk
               /\ running'
       /\ (last'.op = "crop" /\ last'.result \in {"invalid", "staged"})
            => LET t == last'.req.settings
                   source == imread(item(supported_files, current_index))
               IN (last'.result = "invalid")
                     <=> ~(0 <= t[1] /\ t[1] < t[3] /\ t[3] <= Width(source)
                           /\ 0 <= t[2] /\ t[2] < t[4] /\ t[4] <= Height(source))
       /\ (last'.op = "resize" /\ last'.result \in {"invalid", "staged"})
            => ((last'.result = "invalid")
                   <=> (last'.req.settings[1] <= 0 \/ last'.req.settings[2] <= 0))
       /\ (last'.op = "flip" /\ last'.result \in {"invalid", "staged"})
            => ((last'.result = "invalid")
                   <=> last'.req.settings \notin {"vertically", "horizontally"})]_vars

\* C8 witness: a crop whose second and fourth fields are equal was rejected
\* while a temp file staged before is still the one shown.
RejectedTransformWitness ==
    /\ last.op = "crop" /\ last.result = "invalid"
    /\ last.req.settings[2] = last.req.settings[4]
    /\ temp_file_path # None
    /\ center_box = Image(temp_file_path)

\* The quarter turns of np.rot90, written out
Turned(frame, count) ==
    LET H == Height(frame)
        W == Width(frame)
    IN CASE count = 1 -> [i \in 1..W |-> [j \in 1..H |-> frame[j][W + 1 - i]]]
         [] count = 2 -> [i \in 1..H |-> [j \in 1..W |-> frame[H + 1 - i][W + 1 - j]]]
         [] count = 3 -> [i \in 1..W |-> [j \in 1..H |-> frame[H + 1 - j][i]]]

\* C9: Rotate90 with a count outside {1,2,3} does not fail: the unrotated
\* frame of the current file is staged (replacing what was staged) and
\* shown, so that save_image's checks pass; with a count in {1,2,3} the
\* staged frame is the source turned count times by 90 degrees.
RotateOutOfRangeStages ==
    [][(last'.op = "rotate" /\ in_range(supported_files, current_index))
          => LET source == imread(item(supported_files, current_index))
                 count == last'.req.settings
             IN /\ last'.result = "staged"
                /\ running'
                /\ center_box' = Image(temp_file_path')
                /\ last'.load = center_box'
                /\ temp_file_path'.image =
                      IF count \in {1, 2, 3} THEN Turned(source, count) ELSE source
                /\ save_check(supported_files', current_index', temp_file_path') = "ok"]_vars

\* C9 witness: a rotation by 4 staged the unrotated two-by-three image over a
\* temp file made from the same file.
RotateOutOfRangeWitness ==
    /\ last.op = "rotate" /\ last.req.settings = 4 /\ last.result = "staged"
    /\ last.over
    /\ Height(temp_file_path.image) = 2 /\ Width(temp_file_path.image) = 3
    /\ temp_file_path.image = imread(staged_from)

\* The request kept in last, applied to a frame
Applied(req, source) ==
    CASE req.kind = "crop" ->
           Slice(source, req.settings[2], req.settings[4], req.settings[1], req.settings[3])
      [] req.kind = "resize" -> resize(source, req.settings[1], req.settings[2])
      [] req.kind = "brightness" -> brighten(source, req.settings[1])
      [] req.kind = "saturation" -> saturate(source, req.settings[1])
      [] req.kind = "rotate" ->
           IF req.settings \in {1, 2, 3} THEN Turned(source, req.settings) ELSE source
      [] req.kind = "flip" ->
           IF req.settings = "vertically" THEN flipud(source) ELSE fliplr(source)

\* C10: every transform reads supported_files[current_index], never the temp
\* file: the one staged frame is the last request applied to the source
\* file alone, and each successful transform replaces the staged slot.
TransformReadsSource ==
    [][last'.result = "staged"
          => /\ temp_file_path'.image =
                   Applied(last'.req, imread(item(supported_files, current_index)))
             /\ staged_from' = item(supported_files, current_index)
             /\ center_box' = Image(temp_file_path')]_vars

\* C10 witness: a vertical flip staged over a temp file made from the same
\* two-row image; the staged frame is the flipped source, not a flip of the
\* frame staged before.
TransformReadsSourceWitness ==
    /\ last.op = "flip" /\ last.req.settings = "vertically" /\ last.result = "staged"
    /\ last.over
    /\ Height(temp_file_path.image) = 2
    /\ temp_file_path.image = flipud(imread(staged_from))

(***************************************************************************)
(* Crop and flip properties, checked under EditSpec.                       *)
(***************************************************************************)
\* C11: a crop entered as (Top, Left, Bottom, Right) on an image of width W
\* and height H is accepted iff 0 <= left < right <= W and
\* 0 <= top < bottom <= H, and the staged frame then has height bottom - top
\* and width right - left and is rows [top, bottom) x columns [left, right)
\* of the source.
CropByTopLeftBottomRight ==
    [][(last'.op = "crop" /\ last'.result \in {"invalid", "staged"})
          => LET source == imread(item(supported_files, current_index))
                 top == last'.req.settings[1]
                 left == last'.req.settings[2]
                 bottom == last'.req.settings[3]
                 right == last'.req.settings[4]
                 staged == temp_file_path'.image
             IN /\ (last'.result = "staged")
                      <=> (0 <= left /\ left < right /\ right <= Width(source)
                           /\ 0 <= top /\ top < bottom /\ bottom <= Height(source))
                /\ (last'.result = "staged")
                      => /\ Height(staged) = bottom - top
                         /\ Width(staged) = right - left
                         /\ \A i \in 1..(bottom - top) : \A j \in 1..(right - left) :
                               staged[i][j] = source[top + i][left + j]]_vars

\* C12 as stated: flip-vertical issued twice, as two requests on the same
\* source file, leaves the staged frame equal to the source image.
FlipTwiceRestores ==
    (last.op = "flip" /\ last.req.settings = "vertically" /\ last.result = "staged"
        /\ last.redo)
        => temp_file_path.image = imread(staged_from)

\* C12 as amended: flip-vertical issued twice, as two requests on the same
\* source file, leaves the staged frame equal to the source flipped once,
\* as after the first request; it is the source again only if flipping the
\* source changes nothing, and flipping the staged frame gives the source.
FlipTwiceFlipsOnce ==
    (last.op = "flip" /\ last.req.settings = "vertically" /\ last.result = "staged"
        /\ last.redo)
        => /\ temp_file_path.image = flipud(imread(staged_from))
           /\ flipud(temp_file_path.image) = imread(staged_from)
           /\ (temp_file_path.image = imread(staged_from))
                 <=> (flipud(imread(staged_from)) = imread(staged_from))
           /\ center_box = Image(temp_file_path)

\* C12 witness: the second of two vertical flips of the two-row image; the
\* staged frame has the rows of the source in reverse order.
FlipTwiceWitness ==
    /\ last.op = "flip" /\ last.req.settings = "vertically" /\ last.result = "staged"
    /\ last.redo
    /\ Height(temp_file_path.image) = 2
    /\ temp_file_path.image[1] = imread(staged_from)[2]
    /\ temp_file_path.image # imread(staged_from)

(***************************************************************************)
(* Frame properties of save and of the transforms, checked under Spec.     *)
(***************************************************************************)
TransformOps == {"crop", "resize", "brightness", "saturation", "rotate", "flip"}

\* C13: a save that writes a file is a pure copy: the temp file stays staged
\* as it was (so the save can be repeated), only the destination file is
\* written, with the staged frame, and the list of files, the index and the
\* files already saved under other names are unchanged; no transform
\* changes the list or the index.
SaveIsPureCopy ==
    [][/\ (last'.op = "save" /\ last'.result = "saved")
            => /\ temp_file_path # None
               /\ temp_file_path' = temp_file_path
               /\ staged_from' = staged_from
               /\ supported_files' = supported_files
               /\ current_index' = current_index
               /\ center_box' = center_box
               /\ running'
               /\ [path |-> last'.dest, data |-> temp_file_path.image] \in disk'
               /\ \A f \in disk : f.path # last'.dest => f \in disk'
               /\ \A f \in disk' : f.path # last'.dest => f \in disk
               /\ save_check(supported_files', current_index', temp_file_path') = "ok"
       /\ last'.op \in TransformOps
            => /\ supported_files' = supported_files
               /\ current_index' = current_index
               /\ disk' = disk]_vars

\* C13 witness: a second save right after a first one, in a list of three
\* with the index on the second file: the temp file is still staged and two
\* files are on the disk.
SaveIsPureCopyWitness ==
    /\ last.op = "save" /\ last.result = "saved" /\ last.before # None
    /\ last.before # last.dest
    /\ temp_file_path # None
    /\ Len(supported_files) = 3 /\ current_index = 1
    /\ Cardinality(disk) = 2

\* C14: with INITIAL_INDEX = 0, whenever an open, Next or Prev shows an
\* image, it is supported_files[current_index] of the state it leaves, the
\* file the transforms and save then work on; Prev with current_index > 0
\* subtracts exactly 1 and shows supported_files[current_index], and at
\* index 0 shows the label and leaves the index at 0.
ShownIsCurrent ==
    [][/\ (last'.op \in {"open_file", "open_dir", "next", "prev"}
             /\ last'.load.kind = "Image")
            => /\ in_range(supported_files', current_index')
               /\ last'.load = Image(item(supported_files', current_index'))
               /\ center_box' = last'.load
       /\ last'.op = "prev"
            => /\ supported_files' = supported_files
               /\ IF current_index > 0
                  THEN /\ current_index' = current_index - 1
                       /\ last'.load = Image(supported_files[current_index' + 1])
                       /\ center_box' = last'.load
                  ELSE /\ current_index' = 0
                       /\ last'.load = NoMoreImages
                       /\ center_box' = NoMoreImages]_vars

\* C14 witness: Prev moved the index from 2 to 1 in a list of three and the
\* second file is shown.
ShownIsCurrentWitness ==
    /\ last.op = "prev" /\ last.result = "ok"
    /\ Len(supported_files) = 3 /\ current_index = 1
    /\ center_box = Image(supported_files[2])

====
